---- MODULE Spec2Model ----
(***************************************************************************)
(* Model of the carousel slide editor (InstagramStyleSlideEditor) and of   *)
(* the project / slide HTTP route handlers of wordwise-ai.                 *)
(*                                                                         *)
(* The editor is a React component: every handler is created by a render   *)
(* and closes over the values of slides, currentSlide and                  *)
(* currentSlideIndex of that render.  A handler runs atomically up to its  *)
(* await; the code after the await runs later, still with the values the   *)
(* handler closed over, while the store functions (addSlide, updateSlide,  *)
(* deleteSlide) act on the store's state of that later moment.  A request  *)
(* that has been issued and not yet resumed is an element of inflight and  *)
(* carries the closed-over values.  Passive effects (useEffect) are        *)
(* flushed before the next event, so they are part of every action.        *)
(*                                                                         *)
(* Timestamps (created_at, updated_at) are left out of the slide record.   *)
(***************************************************************************)
EXTENDS Integers, Sequences, FiniteSets, Bags, TLC

VARIABLES
    slides,             \* useAppStore().slides: the local slide collection
    currentSlide,       \* useAppStore().currentSlide, or NoSlide
    currentSlideIndex,  \* useState(0)
    content,            \* useState(""): the textarea buffer
    isAutoSaving,       \* useAppStore().isAutoSaving
    inflight,           \* bag of requests issued and not yet resumed
    dbSlides,           \* slide rows the store holds for this project
    newIds,             \* number of identifiers generated so far
    opsLeft,            \* how many more of Add, Duplicate, Delete, content change may be invoked
    lastResumed,        \* the kind and outcome of the request the last step resumed
    apiProjects,        \* route handlers: rows of carousel_projects
    apiSlides,          \* route handlers: rows of slides
    apiResponse,        \* route handlers: the last response and its store use
    selStart,           \* textarea.selectionStart
    selEnd,             \* textarea.selectionEnd
    lastCommand,        \* the format command or suggestion last applied, with the
                        \* buffer and the selection it was applied to
    lastSaved,          \* useAppStore().lastSaved, as the number of setLastSaved calls
    savesAccepted       \* number of slide updates the store has accepted

vars == <<slides, currentSlide, currentSlideIndex, content, isAutoSaving,
          inflight, dbSlides, newIds, opsLeft, lastResumed,
          apiProjects, apiSlides, apiResponse, selStart, selEnd, lastCommand,
          lastSaved, savesAccepted>>

editorVars == <<slides, currentSlide, currentSlideIndex, content, isAutoSaving,
                inflight, dbSlides, newIds, opsLeft, lastResumed>>

apiVars == <<apiProjects, apiSlides, apiResponse>>

\* The selection is followed through the format commands and the suggestions only
fmtVars == <<selStart, selEnd, lastCommand>>

saveVars == <<lastSaved, savesAccepted>>

----------------------------------------------------------------------------
(* Bounds and program constants *)

\* slides.length >= 10 disables Add and Duplicate
MaxSlides == 10

\* at most this many of Add, Duplicate, Delete and content change are invoked
MaxOps == 2

\* the same, when the editor is opened at or next to the capacity limit
MaxCapOps == 2

\* lengths of the slide collection the editor is opened with
InitLengths == {1, 2, 3}

\* the same, at or next to the capacity limit
CapLengths == {MaxSlides - 1, MaxSlides}

\* buffers a content change may set
Values == {<<"a">>, <<"a", "b">>}

NoSlide == [id |-> 0]
NoTone == "null"
NoCommand == [op |-> "none"]
NotResumed == [kind |-> "none", outcome |-> "none"]
Resumed(kind, o) == [kind |-> kind, outcome |-> o]

Outcomes == {"ok", "http_error", "network_error"}

Max(a, b) == IF a >= b THEN a ELSE b
Min(a, b) == IF a <= b THEN a ELSE b

----------------------------------------------------------------------------
(* The store (useAppStore) *)

\* addSlide(slide): appends to the store's current collection
addSlide(sl, slide) == Append(sl, slide)

\* deleteSlide(id): removes the slide with that id, keeps the others in order
deleteSlide(sl, id) == SelectSeq(sl, LAMBDA s : s.id # id)

\* updateSlide(id, updates): replaces the slide with that id
updateSlide(sl, id, updated) ==
    [i \in 1..Len(sl) |-> IF sl[i].id = id THEN updated ELSE sl[i]]

\* generateId(): a fresh identifier; also the ids the store generates
generateId(n) == 100 + n + 1

----------------------------------------------------------------------------
(* Effects *)

\* useEffect on [currentSlideIndex, slides]: setCurrentSlide(slides[index]).
\* slides[index] is undefined for a negative index.
SyncCurrentSlide(sl, idx, cur) ==
    IF Len(sl) > 0 /\ idx < Len(sl)
    THEN IF idx >= 0 THEN sl[idx + 1] ELSE NoSlide
    ELSE cur

\* useEffect on [currentSlide]: setContent(currentSlide.content)
SyncContent(cur, newCur, buf) ==
    IF newCur # NoSlide /\ newCur # cur THEN newCur.content ELSE buf

\* Mutant: char_count is set from the slide number
InsertedSlideCountsNumber(newId, slide_number, body_content, tone) ==
    [id |-> newId,
     slide_number |-> IF slide_number = 0 THEN 1 ELSE slide_number,
     content |-> body_content,
     char_count |-> slide_number,
     tone |-> tone]

\* The record the POST handler inserts: slide_number || 1, content || "",
\* tone || null, char_count = (content || "").length, id generated.
InsertedSlide(newId, slide_number, body_content, tone) ==
    [id |-> newId,
     slide_number |-> IF slide_number = 0 THEN 1 ELSE slide_number,
     content |-> body_content,
     char_count |-> Len(body_content),
     tone |-> tone]

InitialSlide(i) ==
    [id |-> i,
     slide_number |-> i,
     content |-> IF i % 2 = 1 THEN <<"x">> ELSE <<>>,
     char_count |-> IF i % 2 = 1 THEN 1 ELSE 0,
     tone |-> IF i % 2 = 1 THEN "casual" ELSE NoTone]

\* No format command applied yet, the caret at the start of the buffer
FormatIdle ==
    /\ selStart = 0
    /\ selEnd = 0
    /\ lastCommand = NoCommand

\* Nothing saved yet
SaveIdle ==
    /\ lastSaved = 0
    /\ savesAccepted = 0

ApiIdle ==
    /\ apiProjects = {}
    /\ apiSlides = {}
    /\ apiResponse = [handler |-> "none"]

\* The editor opened on a project of n slides, the first one active
Opened(n, budget) ==
    /\ slides = [i \in 1..n |-> InitialSlide(i)]
    /\ currentSlideIndex = 0
    /\ currentSlide = slides[1]
    /\ content = slides[1].content
    /\ isAutoSaving = FALSE
    /\ inflight = EmptyBag
    /\ dbSlides = {slides[i] : i \in 1..Len(slides)}
    /\ newIds = 0
    /\ opsLeft = budget
    /\ lastResumed = NotResumed
    /\ ApiIdle
    /\ FormatIdle
    /\ SaveIdle

Init == \E n \in InitLengths : Opened(n, MaxOps)

InitCap == \E n \in CapLengths : Opened(n, MaxCapOps)

\* What every handler's re-render leaves behind: the two effects.
Render(sl, idx, cur, buf) ==
    LET newCur == SyncCurrentSlide(sl, idx, cur) IN
    /\ currentSlide' = newCur
    /\ content' = SyncContent(cur, newCur, buf)

----------------------------------------------------------------------------
(* Navigation *)

\* onClick of the previous button; disabled when currentSlideIndex === 0
Previous ==
    /\ currentSlideIndex # 0
    /\ currentSlideIndex' = Max(0, currentSlideIndex - 1)
    /\ Render(slides, currentSlideIndex', currentSlide, content)
    /\ lastResumed' = NotResumed
    /\ UNCHANGED <<slides, isAutoSaving, inflight, dbSlides, newIds, opsLeft>>
    /\ UNCHANGED apiVars
    /\ UNCHANGED fmtVars
    /\ UNCHANGED saveVars

\* onClick of the next button; disabled when currentSlideIndex === slides.length - 1
NextSlide ==
    /\ currentSlideIndex # Len(slides) - 1
    /\ currentSlideIndex' = Min(Len(slides) - 1, currentSlideIndex + 1)
    /\ Render(slides, currentSlideIndex', currentSlide, content)
    /\ lastResumed' = NotResumed
    /\ UNCHANGED <<slides, isAutoSaving, inflight, dbSlides, newIds, opsLeft>>
    /\ UNCHANGED apiVars
    /\ UNCHANGED fmtVars
    /\ UNCHANGED saveVars

----------------------------------------------------------------------------
(* Requests *)

Request(kind, id, idx, len, value) ==
    [kind |-> kind, id |-> id, idx |-> idx, len |-> len, value |-> value]

\* Mutant: issuing a request cancels the requests still in flight
IssueSuperseding(r) == SetToBag({r})

Issue(r) == inflight (+) SetToBag({r})
Resume(r) == inflight (-) SetToBag({r})
Pending(kind) == {r \in BagToSet(inflight) : r.kind = kind}

----------------------------------------------------------------------------
(* Add *)

\* The state addNewSlide leaves once its POST has answered ok: addSlide(slide),
\* then setCurrentSlideIndex(slides.length) with the length the handler closed over.
AddOkSlides(sl, slide) == addSlide(sl, slide)
AddOkIndex(r, sl) == r.len

\* onClick of the Add button (disabled when slides.length >= 10): addNewSlide up to
\* its await.  The body carries slide_number = slides.length + 1 and content "".
AddNewSlide ==
    /\ Len(slides) < MaxSlides
    /\ opsLeft > 0
    /\ inflight' = Issue(Request("add", 0, 0, Len(slides), <<>>))
    /\ opsLeft' = opsLeft - 1
    /\ lastResumed' = NotResumed
    /\ UNCHANGED <<slides, currentSlide, currentSlideIndex, content, isAutoSaving,
                   dbSlides, newIds>>
    /\ UNCHANGED apiVars
    /\ UNCHANGED fmtVars
    /\ UNCHANGED saveVars

\* addNewSlide after its await, response.ok: the store created the slide
AddSucceeds ==
    /\ \E r \in Pending("add") :
        LET slide == InsertedSlide(generateId(newIds), r.len + 1, r.value, NoTone) IN
        /\ inflight' = Resume(r)
        /\ dbSlides' = dbSlides \cup {slide}
        /\ newIds' = newIds + 1
        /\ slides' = AddOkSlides(slides, slide)
        /\ currentSlideIndex' = AddOkIndex(r, slides)
        /\ Render(slides', currentSlideIndex', currentSlide, content)
    /\ lastResumed' = Resumed("add", "ok")
    /\ UNCHANGED <<isAutoSaving, opsLeft>>
    /\ UNCHANGED apiVars
    /\ UNCHANGED fmtVars
    /\ UNCHANGED saveVars

\* Mutant: the slide is appended before the response is known and a failure
\* does not take it back
AddFailedSlidesOptimistic(sl, r) ==
    addSlide(sl, InsertedSlide(999, r.len + 1, r.value, NoTone))

\* What addNewSlide does to the collection and the index when its request failed
AddFailedSlides(sl, r) == sl
AddFailedIndex(idx, r) == idx

\* addNewSlide after its await, response not ok (401, 404, 500): nothing is done
AddRejected ==
    /\ \E r \in Pending("add") :
        /\ inflight' = Resume(r)
        /\ slides' = AddFailedSlides(slides, r)
        /\ currentSlideIndex' = AddFailedIndex(currentSlideIndex, r)
        /\ Render(slides', currentSlideIndex', currentSlide, content)
    /\ lastResumed' = Resumed("add", "http_error")
    /\ UNCHANGED <<isAutoSaving, dbSlides, newIds, opsLeft>>
    /\ UNCHANGED apiVars
    /\ UNCHANGED fmtVars
    /\ UNCHANGED saveVars

\* addNewSlide after its await, fetch threw: the catch block only logs
AddNetworkError ==
    /\ \E r \in Pending("add") :
        /\ inflight' = Resume(r)
        /\ slides' = AddFailedSlides(slides, r)
        /\ currentSlideIndex' = AddFailedIndex(currentSlideIndex, r)
        /\ Render(slides', currentSlideIndex', currentSlide, content)
    /\ lastResumed' = Resumed("add", "network_error")
    /\ UNCHANGED <<isAutoSaving, dbSlides, newIds, opsLeft>>
    /\ UNCHANGED apiVars
    /\ UNCHANGED fmtVars
    /\ UNCHANGED saveVars

----------------------------------------------------------------------------
(* Duplicate *)

\* Mutant: the clone keeps the slide_number of the slide it copies
DuplicatedSlideSameNumber(cur, sl, newId) == [cur EXCEPT !.id = newId]

\* The slide duplicateSlide builds: currentSlide with a new id and slide_number
DuplicatedSlide(cur, sl, newId) ==
    [cur EXCEPT !.id = newId, !.slide_number = Len(sl) + 1]

\* onClick of the Duplicate button (disabled when !currentSlide || slides.length >= 10)
DuplicateSlide ==
    /\ currentSlide # NoSlide
    /\ Len(slides) < MaxSlides
    /\ opsLeft > 0
    /\ slides' = addSlide(slides, DuplicatedSlide(currentSlide, slides, generateId(newIds)))
    /\ newIds' = newIds + 1
    /\ currentSlideIndex' = Len(slides)
    /\ Render(slides', currentSlideIndex', currentSlide, content)
    /\ opsLeft' = opsLeft - 1
    /\ lastResumed' = NotResumed
    /\ UNCHANGED <<isAutoSaving, inflight, dbSlides>>
    /\ UNCHANGED apiVars
    /\ UNCHANGED fmtVars
    /\ UNCHANGED saveVars

----------------------------------------------------------------------------
(* Delete *)

\* The store may or may not reset currentSlide when the slide it holds is deleted
deleteSlideCurrent(cur, id, clear) == IF clear /\ cur.id = id THEN NoSlide ELSE cur

\* Mutant: the slide is removed by the position closed over, not by its id
DeleteDoneSlidesByIndex(sl, r) ==
    IF r.idx + 1 \in 1..Len(sl)
    THEN SubSeq(sl, 1, r.idx) \o SubSeq(sl, r.idx + 2, Len(sl))
    ELSE sl

\* The state deleteCurrentSlide leaves after its await: deleteSlide(currentSlide.id)
\* and setCurrentSlideIndex(Math.max(0, currentSlideIndex - 1)), both with the
\* values the handler closed over.
DeleteDoneSlides(sl, r) == deleteSlide(sl, r.id)
DeleteDoneIndex(r) == Max(0, r.idx - 1)

\* onClick of the Delete button (disabled when !currentSlide || slides.length <= 1):
\* deleteCurrentSlide up to its await
DeleteCurrentSlide ==
    /\ currentSlide # NoSlide
    /\ Len(slides) > 1
    /\ opsLeft > 0
    /\ inflight' = Issue(Request("delete", currentSlide.id, currentSlideIndex, 0, <<>>))
    /\ opsLeft' = opsLeft - 1
    /\ lastResumed' = NotResumed
    /\ UNCHANGED <<slides, currentSlide, currentSlideIndex, content, isAutoSaving,
                   dbSlides, newIds>>
    /\ UNCHANGED apiVars
    /\ UNCHANGED fmtVars
    /\ UNCHANGED saveVars

\* deleteCurrentSlide after its await: the response is not looked at and a thrown
\* fetch is only logged, so every outcome continues the same way
DeleteDone ==
    /\ \E r \in Pending("delete"), o \in Outcomes, clear \in BOOLEAN :
        /\ inflight' = Resume(r)
        /\ lastResumed' = Resumed("delete", o)
        /\ dbSlides' = IF o = "ok" THEN {s \in dbSlides : s.id # r.id} ELSE dbSlides
        /\ slides' = DeleteDoneSlides(slides, r)
        /\ currentSlideIndex' = DeleteDoneIndex(r)
        /\ Render(slides', currentSlideIndex',
                  deleteSlideCurrent(currentSlide, r.id, clear), content)
    /\ UNCHANGED <<isAutoSaving, newIds, opsLeft>>
    /\ UNCHANGED apiVars
    /\ UNCHANGED fmtVars
    /\ UNCHANGED saveVars

----------------------------------------------------------------------------
(* Content change and auto-save *)

\* The store may or may not update currentSlide along with the collection
updateSlideCurrent(cur, id, updated, sync) == IF sync /\ cur.id = id THEN updated ELSE cur

\* Mutant: char_count is not recomputed
UpdatedSlideStaleCount(cur, value) == [cur EXCEPT !.content = value]

\* updatedSlide of handleContentChange
UpdatedSlide(cur, value) == [cur EXCEPT !.content = value, !.char_count = Len(value)]

\* The collection after handleContentChange's synchronous part
ChangedSlides(sl, cur, value) == updateSlide(sl, cur.id, UpdatedSlide(cur, value))

\* handleContentChange(value) up to its await: setContent, updateSlide,
\* setAutoSaving(true), then the PUT is issued.  Without a current slide only
\* the buffer changes.
ContentChanged(value, sync) ==
    /\ IF currentSlide # NoSlide
       THEN /\ slides' = ChangedSlides(slides, currentSlide, value)
            /\ isAutoSaving' = TRUE
            /\ inflight' = Issue(Request("save", currentSlide.id, 0, 0, value))
            /\ Render(slides', currentSlideIndex,
                      updateSlideCurrent(currentSlide, currentSlide.id,
                                         UpdatedSlide(currentSlide, value), sync),
                      value)
       ELSE /\ content' = value
            /\ UNCHANGED <<slides, currentSlide, isAutoSaving, inflight>>
    /\ lastResumed' = NotResumed
    /\ UNCHANGED <<currentSlideIndex, dbSlides, newIds>>
    /\ UNCHANGED saveVars

\* onChange of the textarea: handleContentChange(e.target.value)
HandleContentChange ==
    /\ opsLeft > 0
    /\ \E value \in Values, sync \in BOOLEAN : ContentChanged(value, sync)
    /\ opsLeft' = opsLeft - 1
    /\ UNCHANGED apiVars
    /\ UNCHANGED fmtVars

\* The flag handleContentChange's finally block sets
SavingAfterSave(flag, r) == FALSE

\* The collection once a save request has answered or thrown: nothing is rolled back
SlidesAfterSave(sl, r, o) == sl

\* setLastSaved(new Date()) follows the await of fetch directly: it is skipped
\* only when fetch threw, the response's status is not looked at
LastSavedAfterSave(last, o) == IF o = "network_error" THEN last ELSE last + 1

\* handleContentChange after its await: setLastSaved unless fetch threw, then
\* finally setAutoSaving(false)
SaveDone ==
    /\ \E r \in Pending("save"), o \in Outcomes :
        /\ inflight' = Resume(r)
        /\ lastResumed' = Resumed("save", o)
        /\ isAutoSaving' = SavingAfterSave(isAutoSaving, r)
        /\ slides' = SlidesAfterSave(slides, r, o)
        /\ dbSlides' = IF o = "ok"
                       THEN {IF s.id = r.id
                             THEN [s EXCEPT !.content = r.value, !.char_count = Len(r.value)]
                             ELSE s : s \in dbSlides}
                       ELSE dbSlides
        /\ Render(slides', currentSlideIndex, currentSlide, content)
        /\ lastSaved' = LastSavedAfterSave(lastSaved, o)
        /\ savesAccepted' = IF o = "ok" THEN savesAccepted + 1 ELSE savesAccepted
    /\ UNCHANGED <<currentSlideIndex, newIds, opsLeft>>
    /\ UNCHANGED apiVars
    /\ UNCHANGED fmtVars

Next ==
    \/ Previous
    \/ NextSlide
    \/ AddNewSlide
    \/ AddSucceeds
    \/ AddRejected
    \/ AddNetworkError
    \/ DuplicateSlide
    \/ DeleteCurrentSlide
    \/ DeleteDone
    \/ HandleContentChange
    \/ SaveDone

Spec == Init /\ [][Next]_vars

\* The editor opened at or next to the capacity limit
SpecCap == InitCap /\ [][Next]_vars

----------------------------------------------------------------------------
(* Properties of the editor *)

Ids(sl) == {sl[i].id : i \in 1..Len(sl)}

\* the step resumes the request r of the given kind
Resumes(r, kind) == r.kind = kind /\ r \in BagToSet(inflight) /\ inflight' = Resume(r)

\* the step issues the request r of the given kind
Issues(r, kind) == r.kind = kind /\ r \in BagToSet(inflight') /\ inflight' = Issue(r)

\* C1: the local slide collection never holds more than 10 slides, whatever Add and
\* Duplicate invocations are made, also while an earlier Add is still in flight.
C1_CapacityNeverExceeded == Len(slides) <= MaxSlides

\* C2: starting from a non-empty collection, at least one slide always remains,
\* whatever Delete invocations and pending deletions interleave.
C2_AtLeastOneSlideRemains == Len(slides) >= 1

\* C3: whenever the collection is non-empty the active index is within
\* 0 .. slides.length - 1.
C3_IndexInRange ==
    Len(slides) > 0 => (0 <= currentSlideIndex /\ currentSlideIndex < Len(slides))

\* C4: Add changes the collection and the active index only when its request
\* resumes, and only if it answered ok; a failed request (non-ok response or thrown
\* fetch) leaves both as they were, and the slide a successful one appends is a
\* record of the store.
C4_AddStep ==
    /\ \A r \in BagToSet(inflight') :
           Issues(r, "add") =>
               slides' = slides /\ currentSlideIndex' = currentSlideIndex
    /\ \A r \in BagToSet(inflight) :
           Resumes(r, "add") =>
               IF lastResumed'.outcome = "ok"
               THEN /\ Len(slides') = Len(slides) + 1
                    /\ SubSeq(slides', 1, Len(slides)) = slides
                    /\ slides'[Len(slides')] \in dbSlides'
                    /\ slides'[Len(slides')] \notin dbSlides
               ELSE slides' = slides /\ currentSlideIndex' = currentSlideIndex

C4_AddOnlyAfterSuccess == [][C4_AddStep]_vars

C4_Witness ==
    /\ lastResumed.kind = "add"
    /\ lastResumed.outcome \in {"http_error", "network_error"}
    /\ Len(slides) > 1

\* C5: when an Add answers ok, the new slide (empty content, slide_number = the
\* length at invocation + 1) is the last of the collection and the active index is
\* its position, whatever took effect while the request was in flight.
C5_AddActivatesNewSlide ==
    lastResumed = Resumed("add", "ok") =>
        /\ slides[Len(slides)].content = <<>>
        /\ currentSlideIndex = Len(slides) - 1

\* C6: a Delete removes exactly the slide that was current when it was invoked, keeps
\* the other slides in their order and sets the active index to
\* max(0, index at invocation - 1), whatever the outcome of the remote deletion.
C6_DeleteStep ==
    /\ \A r \in BagToSet(inflight') :
           Issues(r, "delete") =>
               /\ Len(slides) > 1
               /\ r.id = currentSlide.id
               /\ r.idx = currentSlideIndex
               /\ (0 <= currentSlideIndex /\ currentSlideIndex < Len(slides))
                      => slides[currentSlideIndex + 1].id = r.id
               /\ slides' = slides
    /\ \A r \in BagToSet(inflight) :
           Resumes(r, "delete") =>
               /\ r.id \notin Ids(slides')
               /\ Len(slides') = Len(slides) - Cardinality({i \in 1..Len(slides) : slides[i].id = r.id})
               /\ \A i \in 1..Len(slides') :
                      \E j \in i..Len(slides) :
                          /\ slides'[i] = slides[j]
                          /\ j - i = Cardinality({k \in 1..j : slides[k].id = r.id})
               /\ currentSlideIndex' = (IF r.idx - 1 > 0 THEN r.idx - 1 ELSE 0)

C6_DeleteRemovesInvokedSlide == [][C6_DeleteStep]_vars

C6_Witness ==
    /\ lastResumed.kind = "delete"
    /\ lastResumed.outcome \in {"http_error", "network_error"}
    /\ Len(slides) = 2
    /\ slides[1].id = 1 /\ slides[2].id = 3

\* C7: Duplicate with fewer than 10 slides appends one slide with the content and
\* tone of the current slide, an id no existing slide has and slide_number =
\* previous length + 1; the active index becomes the previous length, the slides
\* already there are unchanged, and no request is issued.
C7_DuplicateStep ==
    (opsLeft' = opsLeft - 1 /\ Len(slides') > Len(slides)) =>
        LET new == slides'[Len(slides')] IN
        /\ Len(slides) < MaxSlides
        /\ Len(slides') = Len(slides) + 1
        /\ new.content = currentSlide.content
        /\ new.tone = currentSlide.tone
        /\ (0 <= currentSlideIndex /\ currentSlideIndex < Len(slides))
               => /\ new.content = slides[currentSlideIndex + 1].content
                  /\ new.tone = slides[currentSlideIndex + 1].tone
        /\ new.id \notin Ids(slides)
        /\ new.slide_number = Len(slides) + 1
        /\ currentSlideIndex' = Len(slides)
        /\ SubSeq(slides', 1, Len(slides)) = slides
        /\ inflight' = inflight
        /\ dbSlides' = dbSlides

C7_DuplicateAppendsClone == [][C7_DuplicateStep]_vars

C7_Witness ==
    /\ Len(slides) = 3
    /\ slides[3].id > 100
    /\ slides[3].content = <<"a", "b">>
    /\ slides[3].tone = "casual"
    /\ slides[3] \notin dbSlides
    /\ slides[1].content = <<"a", "b">>
    /\ slides[1].tone = "casual"
    /\ currentSlideIndex = 2
    /\ opsLeft = MaxOps - 2
    /\ BagCardinality(inflight) = 1

\* C8: a content change has updated the slide in memory (content, char_count = new
\* length) and the buffer by the time its save request is in flight, and no outcome
\* of a save request changes the collection back.
C8_ContentStep ==
    /\ \A r \in BagToSet(inflight') :
           Issues(r, "save") =>
               /\ content' = r.value
               /\ r.id = currentSlide.id
               /\ \A i \in 1..Len(slides') :
                      slides'[i].id = r.id =>
                          /\ slides'[i].content = r.value
                          /\ slides'[i].char_count = Len(r.value)
    /\ \A r \in BagToSet(inflight) :
           Resumes(r, "save") => slides' = slides /\ content' = content

C8_MemoryUpdatedBeforeSave == [][C8_ContentStep]_vars

C8_Witness ==
    /\ lastResumed.kind = "save"
    /\ lastResumed.outcome \in {"http_error", "network_error"}
    /\ slides[currentSlideIndex + 1].content = <<"a", "b">>
    /\ slides[currentSlideIndex + 1].char_count = 2
    /\ slides[currentSlideIndex + 1] \notin dbSlides

\* C9: isAutoSaving is true in every state in which a save request is in flight,
\* and false once none is.
C9_SavingWhileSaveInFlight ==
    /\ Pending("save") # {} => isAutoSaving
    /\ Pending("save") = {} => ~isAutoSaving

----------------------------------------------------------------------------
(* The route handlers: POST /api/projects/[id]/slides and GET, PUT, DELETE       *)
(* /api/projects/[id].  A handler is one action; its response is recorded with   *)
(* the number of store queries it issued.                                        *)

\* at most this many slide rows are inserted
MaxInserts == 1

NoSession == "anonymous"
Users == {"u1", "u2"}
Sessions == Users \cup {NoSession}
ProjectIds == {1, 2}
Titles == {"t1", "t2"}

\* requireAuth(): the caller's user id; throws "Authentication required" without
\* a valid session
AuthenticationRequired(session) == session \notin Users

\* the k-th store query of the request ends in a storage error
Fails(errs, k) == k \in errs

\* .eq("id", id).eq("user_id", userId)
OwnedBy(projects, id, userId) == {p \in projects : p.id = id /\ p.user_id = userId}

SlidesOf(rows, id) == {s \in rows : s.project_id = id}

\* the orders in which the store may return a set of rows
RECURSIVE RowOrders(_)
RowOrders(S) ==
    IF S = {} THEN {<<>>}
    ELSE UNION {{Append(q, x) : q \in RowOrders(S \ {x})} : x \in S}

\* the orders .order("slide_number") may return
NumberOrders(S) ==
    {q \in RowOrders(S) : \A i, j \in 1..Len(q) : i < j => q[i].slide_number <= q[j].slide_number}

\* Array.prototype.sort((a, b) => a.slide_number - b.slide_number): stable
RECURSIVE InsertByNumber(_, _)
InsertByNumber(q, s) ==
    IF q = <<>> THEN <<s>>
    ELSE IF q[Len(q)].slide_number <= s.slide_number THEN Append(q, s)
    ELSE Append(InsertByNumber(SubSeq(q, 1, Len(q) - 1), s), q[Len(q)])

RECURSIVE SortByNumber(_)
SortByNumber(q) ==
    IF q = <<>> THEN <<>>
    ELSE InsertByNumber(SortByNumber(SubSeq(q, 1, Len(q) - 1)), q[Len(q)])

Reply(handler, session, id, status, reads, writes, body) ==
    [handler |-> handler, caller |-> session, project |-> id, status |-> status,
     reads |-> reads, writes |-> writes, slides |-> body]

Result(reply, projects, rows) == [reply |-> reply, projects |-> projects, rows |-> rows]

\* Mutant: the ownership query is issued before requireAuth is called
PostHandlerChecksOwnerFirst(projects, rows, session, id, body, badBody, errs) ==
    IF AuthenticationRequired(session)
    THEN Result(Reply("POST", session, id, 401, 1, 0, <<>>), projects, rows)
    ELSE IF badBody
    THEN Result(Reply("POST", session, id, 500, 1, 0, <<>>), projects, rows)
    ELSE IF Fails(errs, 1) \/ OwnedBy(projects, id, session) = {}
    THEN Result(Reply("POST", session, id, 404, 1, 0, <<>>), projects, rows)
    ELSE Result(Reply("POST", session, id, 500, 1, 1, <<>>), projects, rows)

\* POST: requireAuth, request.json(), the ownership query, the insert
PostHandler(projects, rows, session, id, body, badBody, errs) ==
    IF AuthenticationRequired(session)
    THEN Result(Reply("POST", session, id, 401, 0, 0, <<>>), projects, rows)
    ELSE IF badBody
    THEN Result(Reply("POST", session, id, 500, 0, 0, <<>>), projects, rows)
    ELSE IF Fails(errs, 1) \/ OwnedBy(projects, id, session) = {}
    THEN Result(Reply("POST", session, id, 404, 1, 0, <<>>), projects, rows)
    ELSE IF Fails(errs, 2)
    THEN Result(Reply("POST", session, id, 500, 1, 1, <<>>), projects, rows)
    ELSE LET slide == InsertedSlide(generateId(Cardinality(rows)), body.slide_number,
                                    body.content, NoTone)
             row == [project_id |-> id, id |-> slide.id, slide_number |-> slide.slide_number,
                     content |-> slide.content, char_count |-> slide.char_count,
                     tone |-> slide.tone]
         IN Result(Reply("POST", session, id, 200, 1, 1, <<row>>), projects, rows \cup {row})

\* Mutant: the slides are returned in the order the store handed them over
GetHandlerUnsorted(projects, rows, session, id, errs, order) ==
    IF AuthenticationRequired(session)
    THEN Result(Reply("GET", session, id, 401, 0, 0, <<>>), projects, rows)
    ELSE IF ~Fails(errs, 1) /\ OwnedBy(projects, id, session) # {}
    THEN Result(Reply("GET", session, id, 200, 1, 0, order), projects, rows)
    ELSE IF Fails(errs, 2) \/ OwnedBy(projects, id, session) = {}
    THEN Result(Reply("GET", session, id, 404, 2, 0, <<>>), projects, rows)
    ELSE Result(Reply("GET", session, id, 200, 5, 0, order), projects, rows)

\* GET: requireAuth, the relationship query, and when it errors the basic query
\* followed by the three separate fetches; then the sort by slide_number
GetHandler(projects, rows, session, id, errs, order) ==
    IF AuthenticationRequired(session)
    THEN Result(Reply("GET", session, id, 401, 0, 0, <<>>), projects, rows)
    ELSE IF ~Fails(errs, 1) /\ OwnedBy(projects, id, session) # {}
    THEN Result(Reply("GET", session, id, 200, 1, 0, SortByNumber(order)), projects, rows)
    ELSE IF Fails(errs, 2) \/ OwnedBy(projects, id, session) = {}
    THEN Result(Reply("GET", session, id, 404, 2, 0, <<>>), projects, rows)
    ELSE Result(Reply("GET", session, id, 200, 5, 0, SortByNumber(order)), projects, rows)

\* PUT: requireAuth, request.json(), update ... .select().single()
PutHandler(projects, rows, session, id, title, badBody, errs) ==
    IF AuthenticationRequired(session)
    THEN Result(Reply("PUT", session, id, 401, 0, 0, <<>>), projects, rows)
    ELSE IF badBody
    THEN Result(Reply("PUT", session, id, 500, 0, 0, <<>>), projects, rows)
    ELSE IF Fails(errs, 1)
    THEN Result(Reply("PUT", session, id, 500, 0, 1, <<>>), projects, rows)
    ELSE IF OwnedBy(projects, id, session) = {}
    THEN Result(Reply("PUT", session, id, 500, 0, 1, <<>>), projects, rows)
    ELSE Result(Reply("PUT", session, id, 200, 0, 1, <<>>),
                {IF p \in OwnedBy(projects, id, session) THEN [p EXCEPT !.title = title] ELSE p
                     : p \in projects},
                rows)

\* Mutant: the delete is filtered by the project id alone
DeleteHandlerAnyOwner(projects, rows, session, id, errs) ==
    IF AuthenticationRequired(session)
    THEN Result(Reply("DELETE", session, id, 401, 0, 0, <<>>), projects, rows)
    ELSE IF Fails(errs, 1)
    THEN Result(Reply("DELETE", session, id, 500, 0, 1, <<>>), projects, rows)
    ELSE Result(Reply("DELETE", session, id, 200, 0, 1, <<>>),
                {p \in projects : p.id # id}, rows \ SlidesOf(rows, id))

\* DELETE: requireAuth, delete().eq("id", id).eq("user_id", userId); the store
\* cascades to the project's slides
DeleteHandler(projects, rows, session, id, errs) ==
    IF AuthenticationRequired(session)
    THEN Result(Reply("DELETE", session, id, 401, 0, 0, <<>>), projects, rows)
    ELSE IF Fails(errs, 1)
    THEN Result(Reply("DELETE", session, id, 500, 0, 1, <<>>), projects, rows)
    ELSE Result(Reply("DELETE", session, id, 200, 0, 1, <<>>),
                projects \ OwnedBy(projects, id, session),
                IF OwnedBy(projects, id, session) = {} THEN rows
                ELSE rows \ SlidesOf(rows, id))

\* The response as recorded: the handler's reply, with the storage errors the
\* request met, whether its body failed to parse, and whether the project named
\* was the caller's when it arrived
Recorded(reply, errs, badBody, owned) ==
    [handler |-> reply.handler, caller |-> reply.caller, project |-> reply.project,
     status |-> reply.status, reads |-> reply.reads, writes |-> reply.writes,
     slides |-> reply.slides, errs |-> errs, badBody |-> badBody, owned |-> owned]

Respond(result, errs, badBody) ==
    /\ apiResponse' = Recorded(result.reply, errs, badBody,
                               OwnedBy(apiProjects, result.reply.project,
                                       result.reply.caller) # {})
    /\ apiProjects' = result.projects
    /\ apiSlides' = result.rows
    /\ UNCHANGED editorVars
    /\ UNCHANGED fmtVars
    /\ UNCHANGED saveVars

\* request bodies: nothing provided, or a slide_number and a content
\* The storage errors a request can meet, as the set of its failing queries: an
\* error is met only on a query the handler issues (none without a session; in
\* POST the insert follows a successful ownership query; in GET the basic query
\* follows a failed relationship query and the slides fetch a successful basic one)
StorageErrors(handler, session) ==
    IF AuthenticationRequired(session) THEN {{}}
    ELSE IF handler = "POST" THEN {{}, {1}, {2}}
    ELSE IF handler = "GET" THEN {{}, {1}, {1, 2}, {1, 3}}
    ELSE {{}, {1}}

Bodies == {[slide_number |-> 0, content |-> <<>>], [slide_number |-> 3, content |-> <<"a">>]}

Post ==
    /\ Cardinality(apiSlides) < 3 + MaxInserts
    /\ \E session \in Sessions, id \in ProjectIds, body \in Bodies, badBody \in BOOLEAN :
        \E errs \in StorageErrors("POST", session) :
            Respond(PostHandler(apiProjects, apiSlides, session, id, body, badBody, errs), errs, badBody)

\* the slide rows the store may hand to a GET, in order: none when no query for
\* them is issued, in any order from the relationship query; from the separate
\* fetch (the third query) ordered by slide_number, or no data when it errors
\* (slides || [])
ReturnedRows(projects, rows, session, id, errs) ==
    IF AuthenticationRequired(session) \/ OwnedBy(projects, id, session) = {} THEN {<<>>}
    ELSE IF ~Fails(errs, 1) THEN RowOrders(SlidesOf(rows, id))
    ELSE IF Fails(errs, 3) THEN {<<>>}
    ELSE NumberOrders(SlidesOf(rows, id))

Get ==
    \E session \in Sessions, id \in ProjectIds :
        \E errs \in StorageErrors("GET", session) :
        \E order \in ReturnedRows(apiProjects, apiSlides, session, id, errs) :
            Respond(GetHandler(apiProjects, apiSlides, session, id, errs, order), errs, FALSE)

Put ==
    \E session \in Sessions, id \in ProjectIds, title \in Titles, badBody \in BOOLEAN :
        \E errs \in StorageErrors("PUT", session) :
            Respond(PutHandler(apiProjects, apiSlides, session, id, title, badBody, errs), errs, badBody)

Delete ==
    \E session \in Sessions, id \in ProjectIds :
        \E errs \in StorageErrors("DELETE", session) :
            Respond(DeleteHandler(apiProjects, apiSlides, session, id, errs), errs, FALSE)

StoredRow(project, id, number, text) ==
    [project_id |-> project, id |-> id, slide_number |-> number, content |-> text,
     char_count |-> Len(text), tone |-> NoTone]

InitApi ==
    /\ apiProjects = {[id |-> 1, user_id |-> "u1", title |-> "t1"],
                      [id |-> 2, user_id |-> "u2", title |-> "t1"]}
    /\ apiSlides = {StoredRow(1, 11, 2, <<"x">>), StoredRow(1, 12, 1, <<>>),
                    StoredRow(2, 21, 1, <<"x">>)}
    /\ apiResponse = [handler |-> "none"]
    /\ slides = <<InitialSlide(1)>>
    /\ currentSlideIndex = 0
    /\ currentSlide = slides[1]
    /\ content = slides[1].content
    /\ isAutoSaving = FALSE
    /\ inflight = EmptyBag
    /\ dbSlides = {slides[1]}
    /\ newIds = 0
    /\ opsLeft = 0
    /\ lastResumed = NotResumed
    /\ FormatIdle
    /\ SaveIdle

NextApi ==
    \/ Post
    \/ Get
    \/ Put
    \/ Delete

\* The route handlers serving requests of any caller
SpecApi == InitApi /\ [][NextApi]_vars

\* C10: a request without a valid session is answered 401 by each of POST, GET, PUT
\* and DELETE, and no store query is issued for it.
C10_UnauthorizedWithoutStoreAccess ==
    (apiResponse.handler # "none" /\ apiResponse.caller = NoSession) =>
        /\ apiResponse.status = 401
        /\ apiResponse.reads = 0
        /\ apiResponse.writes = 0

C10_Witness ==
    /\ apiResponse.handler = "DELETE"
    /\ apiResponse.caller = NoSession
    /\ apiResponse.status = 401
    /\ apiResponse.project = 1
    /\ \E p \in apiProjects : p.id = 1 /\ p.title = "t2"

\* C11: no POST, PUT or DELETE changes a project the caller does not own: such a
\* project stays in the store with its metadata and no slide row is added to or
\* removed from it.
C11_Step ==
    \A p \in apiProjects :
        p.user_id # apiResponse'.caller =>
            /\ p \in apiProjects'
            /\ SlidesOf(apiSlides', p.id) = SlidesOf(apiSlides, p.id)

C11_OthersProjectsUntouched == [][C11_Step]_vars

C11_Witness ==
    /\ apiResponse.handler = "DELETE"
    /\ apiResponse.caller = "u1"
    /\ apiResponse.project = 2
    /\ apiResponse.status = 200
    /\ [id |-> 2, user_id |-> "u2", title |-> "t1"] \in apiProjects
    /\ SlidesOf(apiSlides, 2) # {}

\* C12: with the store answering and the body well formed, an authenticated
\* request naming a project that does not exist or is not the caller's is answered
\* "not found" by every handler.
C12_NotFoundWhenNoMatch ==
    (/\ apiResponse.handler # "none"
     /\ apiResponse.caller \in Users
     /\ ~apiResponse.owned
     /\ apiResponse.errs = {}
     /\ ~apiResponse.badBody) => apiResponse.status = 404

Ascending(q) == \A i, j \in 1..Len(q) : i < j => q[i].slide_number <= q[j].slide_number

\* C20: GET of a project the caller owns answers 200 with the project's slides in
\* ascending slide_number order when the relationship query succeeds, and also
\* when it errors and the basic query succeeds: then the separate fetches are made
\* (five queries in all) and the slides are those fetched, or the empty list when
\* that fetch returns nothing.
C20_GetReturnsSortedSlides ==
    (apiResponse.handler = "GET" /\ apiResponse.owned) =>
        /\ (1 \notin apiResponse.errs \/ 2 \notin apiResponse.errs) <=> apiResponse.status = 200
        /\ apiResponse.status = 200 =>
              /\ Ascending(apiResponse.slides)
              /\ apiResponse.reads = (IF 1 \in apiResponse.errs THEN 5 ELSE 1)
              /\ IF 1 \in apiResponse.errs /\ 3 \in apiResponse.errs
                 THEN apiResponse.slides = <<>>
                 ELSE /\ {apiResponse.slides[i] : i \in 1..Len(apiResponse.slides)}
                             = SlidesOf(apiSlides, apiResponse.project)
                      /\ Len(apiResponse.slides)
                             = Cardinality(SlidesOf(apiSlides, apiResponse.project))

C20_Witness ==
    /\ apiResponse.handler = "GET"
    /\ apiResponse.caller = "u1"
    /\ apiResponse.project = 1
    /\ apiResponse.errs = {1}
    /\ apiResponse.status = 200
    /\ Len(apiResponse.slides) = 3
    /\ apiResponse.slides[1].slide_number = 1
    /\ apiResponse.slides[3].slide_number = 3

\* C19: a navigation step (previous or next: the only steps that move the active
\* index and leave the collection, the requests in flight and the operation budget
\* alone) moves the index by one and never to a negative index or to an index
\* >= slides.length, whatever the length of the collection.
C19_Step ==
    (/\ slides' = slides
     /\ inflight' = inflight
     /\ opsLeft' = opsLeft
     /\ currentSlideIndex' # currentSlideIndex) =>
        /\ 0 <= currentSlideIndex'
        /\ currentSlideIndex' < Len(slides)

C19_NavigationClamped == [][C19_Step]_vars

----------------------------------------------------------------------------
(* Format commands and style suggestions.  A string is a sequence of       *)
(* one-character strings; offsets count from 0 as in the code.             *)

\* buffers of up to this many characters are formatted
MaxLen == 3

\* a letter, a white space character and a sentence end
Chars == {"a", " ", "."}

WhiteSpace == {" "}

Buffers == UNION {[1..n -> Chars] : n \in 0..MaxLen}

\* String.prototype.substring(a, b): both offsets are clamped to the string and
\* swapped when a > b
substring(str, a, b) ==
    LET lo == Max(0, Min(Min(a, b), Len(str)))
        hi == Max(0, Min(Max(a, b), Len(str)))
    IN  SubSeq(str, lo + 1, hi)

\* String.prototype.substring(a)
substringFrom(str, a) == substring(str, a, Len(str))

\* String.prototype.trim()
RECURSIVE trimStart(_)
trimStart(str) ==
    IF str # <<>> /\ Head(str) \in WhiteSpace THEN trimStart(Tail(str)) ELSE str

RECURSIVE trimEnd(_)
trimEnd(str) ==
    IF str # <<>> /\ str[Len(str)] \in WhiteSpace
    THEN trimEnd(SubSeq(str, 1, Len(str) - 1))
    ELSE str

trim(str) == trimEnd(trimStart(str))

endsWith(str, ch) == str # <<>> /\ str[Len(str)] = ch

\* String.prototype.indexOf(sub): the least offset sub occurs at, or -1
indexOf(str, sub) ==
    LET at == {i \in 0..(Len(str) - Len(sub)) : SubSeq(str, i + 1, i + Len(sub)) = sub}
    IN  IF at = {} THEN -1 ELSE CHOOSE i \in at : \A j \in at : i <= j

includes(str, sub) == indexOf(str, sub) >= 0

\* GetSubstitution of String.prototype.replace for a string pattern: in the
\* replacement $$ stands for $, $& for the matched text, $` for the text before
\* the match and $' for the text after it
RECURSIVE GetSubstitution(_, _, _, _)
GetSubstitution(replacement, matched, before, after) ==
    IF replacement = <<>> THEN <<>>
    ELSE IF Head(replacement) = "$" /\ Len(replacement) >= 2
                /\ replacement[2] \in {"$", "&", "`", "'"}
    THEN (CASE replacement[2] = "$" -> <<"$">>
            [] replacement[2] = "&" -> matched
            [] replacement[2] = "`" -> before
            [] replacement[2] = "'" -> after)
         \o GetSubstitution(SubSeq(replacement, 3, Len(replacement)), matched, before, after)
    ELSE <<Head(replacement)>> \o GetSubstitution(Tail(replacement), matched, before, after)

\* String.prototype.replace(pattern, replacement) with a string pattern: the
\* first occurrence only
replace(str, pattern, replacement) ==
    LET at == indexOf(str, pattern) IN
    IF at < 0 THEN str
    ELSE substring(str, 0, at)
         \o GetSubstitution(replacement, pattern, substring(str, 0, at),
                            substringFrom(str, at + Len(pattern)))
         \o substringFrom(str, at + Len(pattern))

Formatted(newContent, newCursorPos) ==
    [newContent |-> newContent, newCursorPos |-> newCursorPos]

\* Mutant: the caret of an empty selection is put after both delimiters
WrappedCaretAfter(buf, start, end, mark) ==
    LET selectedText == substring(buf, start, end) IN
    IF selectedText # <<>>
    THEN Formatted(substring(buf, 0, start) \o mark \o selectedText \o mark
                       \o substringFrom(buf, end),
                   end + 2 * Len(mark))
    ELSE Formatted(substring(buf, 0, start) \o mark \o mark \o substringFrom(buf, end),
                   start + 2 * Len(mark))

\* case "bold" (mark "**") and case "italic" (mark "*")
Wrapped(buf, start, end, mark) ==
    LET selectedText == substring(buf, start, end) IN
    IF selectedText # <<>>
    THEN Formatted(substring(buf, 0, start) \o mark \o selectedText \o mark
                       \o substringFrom(buf, end),
                   end + 2 * Len(mark))
    ELSE Formatted(substring(buf, 0, start) \o mark \o mark \o substringFrom(buf, end),
                   start + Len(mark))

\* Mutant: the selected text is kept and the tag put in front of it
TaggedInFront(buf, start, end, prefix, placeholder) ==
    LET selectedText == substring(buf, start, end)
        tag == IF selectedText # <<>> THEN selectedText ELSE placeholder
    IN  Formatted(substring(buf, 0, start) \o prefix \o tag \o substringFrom(buf, start),
                  start + Len(tag) + 1)

\* case "hashtag" (prefix "#", placeholder "hashtag") and case "mention"
\* (prefix "@", placeholder "username")
Tagged(buf, start, end, prefix, placeholder) ==
    LET selectedText == substring(buf, start, end)
        tag == IF selectedText # <<>> THEN selectedText ELSE placeholder
    IN  Formatted(substring(buf, 0, start) \o prefix \o tag \o substringFrom(buf, end),
                  start + Len(tag) + 1)

\* case "insert": value is optional, and an empty string is falsy
Inserted(buf, start, end, provided, value) ==
    IF provided /\ value # <<>>
    THEN Formatted(substring(buf, 0, start) \o value \o substringFrom(buf, end),
                   start + Len(value))
    ELSE Formatted(buf, start)

Formats == {"bold", "italic", "hashtag", "mention", "insert", "underline"}

\* strings handed to insert
InsertValues == {<<>>, <<"z">>, <<"z", "z">>}

\* the switch of handleFormatText; any other format leaves the defaults
\* newContent = content, newCursorPos = start
FormatResult(format, provided, value, buf, start, end) ==
    CASE format = "bold" -> Wrapped(buf, start, end, <<"*", "*">>)
      [] format = "italic" -> Wrapped(buf, start, end, <<"*">>)
      [] format = "hashtag" ->
            Tagged(buf, start, end, <<"#">>, <<"h", "a", "s", "h", "t", "a", "g">>)
      [] format = "mention" ->
            Tagged(buf, start, end, <<"@">>, <<"u", "s", "e", "r", "n", "a", "m", "e">>)
      [] format = "insert" -> Inserted(buf, start, end, provided, value)
      [] OTHER -> Formatted(buf, start)

Command(op, name, provided, text, original, buf, start, end) ==
    [op |-> op, name |-> name, provided |-> provided, text |-> text,
     original |-> original, buffer |-> buf, start |-> start, end |-> end]

\* handleFormatText(format, value): the switch, handleContentChange(newContent),
\* then the timeout's setSelectionRange(newCursorPos, newCursorPos), which clamps
\* to the length of the textarea's value
HandleFormatText ==
    /\ lastCommand = NoCommand
    /\ \E format \in Formats, provided \in BOOLEAN, value \in InsertValues, sync \in BOOLEAN :
        LET result == FormatResult(format, provided, value, content, selStart, selEnd) IN
        /\ provided => format = "insert"
        /\ ~provided => value = <<>>
        /\ ContentChanged(result.newContent, sync)
        /\ selStart' = Min(result.newCursorPos, Len(content'))
        /\ selEnd' = selStart'
        /\ lastCommand' = Command("format", format, provided, value, <<>>,
                                  content, selStart, selEnd)
    /\ UNCHANGED opsLeft
    /\ UNCHANGED apiVars

SuggestionTypes == {"emphasis", "hashtag", "emoji", "mention", "structure", "tone"}

\* suggestion.original and suggestion.suggestion
Originals == {<<>>, <<"a">>}
Suggestions == {<<"Z">>, <<"$", "$">>, <<"$", "&">>}

\* Mutant: no space is added after a sentence end
spacingAfterSentence(buf) ==
    IF endsWith(trim(buf), ".") \/ endsWith(trim(buf), "!") \/ endsWith(trim(buf), "?")
    THEN <<>>
    ELSE <<" ">>

\* const spacing: both branches of the conditional are ' '
spacing(buf) ==
    IF endsWith(trim(buf), ".") \/ endsWith(trim(buf), "!") \/ endsWith(trim(buf), "?")
    THEN <<" ">>
    ELSE <<" ">>

\* the value handleApplyStyleSuggestion hands to handleContentChange
SuggestionResult(type, original, suggestion, buf) ==
    CASE type = "emphasis" -> replace(buf, original, suggestion)
      [] type \in {"hashtag", "emoji", "mention"} -> trim(buf) \o spacing(buf) \o suggestion
      [] type = "structure" -> suggestion
      [] OTHER -> IF original # <<>> /\ includes(buf, original)
                  THEN replace(buf, original, suggestion)
                  ELSE trim(buf) \o <<" ">> \o suggestion

\* handleApplyStyleSuggestion(suggestion); the textarea's value is set by the
\* re-render, which leaves the caret at its end
HandleApplyStyleSuggestion ==
    /\ lastCommand = NoCommand
    /\ \E type \in SuggestionTypes, original \in Originals, suggestion \in Suggestions,
          sync \in BOOLEAN :
        /\ ContentChanged(SuggestionResult(type, original, suggestion, content), sync)
        /\ selStart' = Len(content')
        /\ selEnd' = Len(content')
        /\ lastCommand' = Command("suggestion", type, TRUE, suggestion, original,
                                  content, selStart, selEnd)
    /\ UNCHANGED opsLeft
    /\ UNCHANGED apiVars

\* The editor opened on one slide holding the buffer, with a selection in it
InitFormat ==
    \E buf \in Buffers :
        \E start \in 0..Len(buf) :
            \E end \in start..Len(buf) :
                /\ slides = <<[InitialSlide(1) EXCEPT !.content = buf, !.char_count = Len(buf)]>>
                /\ currentSlideIndex = 0
                /\ currentSlide = slides[1]
                /\ content = buf
                /\ isAutoSaving = FALSE
                /\ inflight = EmptyBag
                /\ dbSlides = {slides[1]}
                /\ newIds = 0
                /\ opsLeft = 0
                /\ lastResumed = NotResumed
                /\ ApiIdle
                /\ selStart = start
                /\ selEnd = end
                /\ lastCommand = NoCommand
                /\ SaveIdle

NextFormat ==
    \/ HandleFormatText
    \/ HandleApplyStyleSuggestion
    \/ SaveDone

SpecFormat == InitFormat /\ [][NextFormat]_vars

----------------------------------------------------------------------------
(* Claims about the format commands and the suggestions *)

\* The string without its n characters from offset at on
Strip(str, at, n) == SubSeq(str, 1, at) \o SubSeq(str, at + n + 1, Len(str))

Applied(op, names) == lastCommand.op = op /\ lastCommand.name \in names

\* C13: bold (d = 2) and italic (d = 1) on buffer B and selection [s, e) give
\* B[0,s) + d stars + B[s,e) + d stars + B[e,..): removing the d characters at
\* offset e + d and the d characters at offset s gives B back; the caret is at
\* e + 2d when the selection was not empty and at s + d when it was.
C13_BoldItalicRoundTrip ==
    Applied("format", {"bold", "italic"}) =>
        LET d == IF lastCommand.name = "bold" THEN 2 ELSE 1
            B == lastCommand.buffer
            s == lastCommand.start
            e == lastCommand.end
        IN  /\ Len(content) = Len(B) + 2 * d
            /\ \A i \in 1..Len(content) :
                  content[i] = (IF i <= s THEN B[i]
                                ELSE IF i <= s + d THEN "*"
                                ELSE IF i <= e + d THEN B[i - d]
                                ELSE IF i <= e + 2 * d THEN "*"
                                ELSE B[i - 2 * d])
            /\ Strip(Strip(content, e + d, d), s, d) = B
            /\ selStart = (IF s < e THEN e + 2 * d ELSE s + d)
            /\ selEnd = selStart

C13_Witness ==
    /\ Applied("format", {"bold"})
    /\ lastCommand.buffer = <<"a", " ", "a">>
    /\ lastCommand.start = 0
    /\ lastCommand.end = 1
    /\ content = <<"*", "*", "a", "*", "*", " ", "a">>
    /\ selStart = 5

\* C14: hashtag and mention on buffer B and selection [s, e) replace the selection
\* by "#" (resp. "@") followed by the selected text, or by "#hashtag" (resp.
\* "@username") when the selection is empty; the text outside the selection is
\* unchanged and the caret is right after the inserted text, which for an empty
\* selection is s + len(placeholder) + 1.
C14_HashtagMention ==
    Applied("format", {"hashtag", "mention"}) =>
        LET B == lastCommand.buffer
            s == lastCommand.start
            e == lastCommand.end
            prefix == IF lastCommand.name = "hashtag" THEN <<"#">> ELSE <<"@">>
            placeholder == IF lastCommand.name = "hashtag"
                           THEN <<"h", "a", "s", "h", "t", "a", "g">>
                           ELSE <<"u", "s", "e", "r", "n", "a", "m", "e">>
            inserted == prefix \o (IF s = e THEN placeholder ELSE SubSeq(B, s + 1, e))
        IN  /\ content = SubSeq(B, 1, s) \o inserted \o SubSeq(B, e + 1, Len(B))
            /\ selStart = s + Len(inserted)
            /\ selEnd = selStart
            /\ s = e => selStart = s + Len(placeholder) + 1

C14_Witness ==
    /\ Applied("format", {"mention"})
    /\ lastCommand.buffer = <<"a", ".">>
    /\ lastCommand.start = 1
    /\ lastCommand.end = 1
    /\ content = <<"a", "@", "u", "s", "e", "r", "n", "a", "m", "e", ".">>
    /\ selStart = 10
    /\ selEnd = 10

\* C15: a format command the switch does not know leaves the buffer and the
\* selection as they were, also when the selection is not empty.
C15_UndefinedCommandNoOp ==
    Applied("format", {"underline"}) =>
        /\ content = lastCommand.buffer
        /\ selStart = lastCommand.start
        /\ selEnd = lastCommand.end

\* C16: insert with a provided string v on buffer B and selection [s, e) gives
\* B[0,s) + v + B[e,..) and the caret s + len(v), for every v, the empty string
\* included.
C16_InsertReplacesSelection ==
    (Applied("format", {"insert"}) /\ lastCommand.provided) =>
        LET B == lastCommand.buffer
            s == lastCommand.start
            e == lastCommand.end
            v == lastCommand.text
        IN  /\ content = SubSeq(B, 1, s) \o v \o SubSeq(B, e + 1, Len(B))
            /\ selStart = s + Len(v)
            /\ selEnd = selStart

\* B without its first i and last j characters is B without the white space at
\* its two ends
TrimsTo(B, i, j) ==
    /\ i + j <= Len(B)
    /\ \A k \in 1..i : B[k] \in WhiteSpace
    /\ \A k \in (Len(B) - j + 1)..Len(B) : B[k] \in WhiteSpace
    /\ i + j < Len(B) => (B[i + 1] \notin WhiteSpace /\ B[Len(B) - j] \notin WhiteSpace)

\* C17: a suggestion of type hashtag, emoji or mention sets the buffer to the
\* trimmed buffer, one space, and the suggestion text, whatever the buffer (empty,
\* white space only, or ending in a sentence end).
C17_AppendWithOneSpace ==
    Applied("suggestion", {"hashtag", "emoji", "mention"}) =>
        LET B == lastCommand.buffer IN
        \E i, j \in 0..Len(B) :
            /\ TrimsTo(B, i, j)
            /\ content = SubSeq(B, i + 1, Len(B) - j) \o <<" ">> \o lastCommand.text

C17_Witness ==
    /\ Applied("suggestion", {"hashtag"})
    /\ lastCommand.buffer = <<" ", "a", ".">>
    /\ lastCommand.text = <<"Z">>
    /\ content = <<"a", ".", " ", "Z">>

\* C18: a suggestion of type emphasis replaces the first occurrence of original in
\* the buffer by the suggestion text, every other character staying as it was (the
\* buffer is unchanged when original does not occur), and the result goes through
\* handleContentChange: the slide holds it and a save of it is issued.
C18_EmphasisReplacesFirst ==
    Applied("suggestion", {"emphasis"}) =>
        LET B == lastCommand.buffer
            o == lastCommand.original
            at == {i \in 0..(Len(B) - Len(o)) : SubSeq(B, i + 1, i + Len(o)) = o}
        IN  /\ at = {} => content = B
            /\ \A i \in at :
                  (\A j \in at : i <= j) =>
                      content = SubSeq(B, 1, i) \o lastCommand.text
                                    \o SubSeq(B, i + Len(o) + 1, Len(B))
            /\ slides[1].content = content
            /\ \/ \E r \in Pending("save") : r.value = content
               \/ lastResumed.kind = "save"

----------------------------------------------------------------------------
(* Claims about auto-save and the slide records *)

\* C24: lastSaved changes only in a step that resumes an auto-save the store
\* accepted; a save that ends in a network failure or in an error response leaves
\* lastSaved as it was.
C24_Step == lastSaved' # lastSaved => lastResumed' = Resumed("save", "ok")

C24_LastSavedOnlyWhenAccepted == [][C24_Step]_vars

\* C23: no two slides of the local collection share a slide_number and the
\* slide_number order is the sequence order.
C23_SlideNumbersStrictlyOrdered ==
    \A i, j \in 1..Len(slides) : i < j => slides[i].slide_number < slides[j].slide_number

\* C21: auto-saves are neither cancelled nor sequenced.  A save in flight leaves
\* the requests in flight only by being resumed (a later edit cancels nothing),
\* and a save the store accepts sets the stored content to the text it carries,
\* whatever the in-memory content is by then: so the save of an earlier edit that
\* is resumed after the save of a later edit leaves the older text in the store.
C21_Step ==
    /\ \A r \in Pending("save") :
          \/ CopiesIn(r, inflight') >= CopiesIn(r, inflight)
          \/ (inflight' = Resume(r) /\ lastResumed'.kind = "save")
    /\ \A r \in Pending("save") :
          (inflight' = Resume(r) /\ lastResumed' = Resumed("save", "ok")) =>
              \A s \in dbSlides' : s.id = r.id => s.content = r.value

C21_SavesNeitherCancelledNorSequenced == [][C21_Step]_vars

\* two edits of slide 1, "a" then "ab", both saves accepted, the save of "a" last
C21_Witness ==
    /\ opsLeft = MaxOps - 2
    /\ savesAccepted = 2
    /\ inflight = EmptyBag
    /\ \E i \in 1..Len(slides) : slides[i].id = 1 /\ slides[i].content = <<"a", "b">>
    /\ \E s \in dbSlides : s.id = 1 /\ s.content = <<"a">>

----------------------------------------------------------------------------
(* The whole editor: typing, navigation, Add, Duplicate, Delete, and one   *)
(* format command or suggestion                                            *)

\* at most this many of Add, Duplicate, Delete and content change are invoked
\* next to the format command
MaxCountOps == 1

InitCount == Opened(2, MaxCountOps)

NextCount ==
    \/ Next
    \/ HandleFormatText
    \/ HandleApplyStyleSuggestion

SpecCount == InitCount /\ [][NextCount]_vars

\* C22: every slide of the local collection has char_count equal to the length
\* of its content, after typing, format commands, applied suggestions, Add and
\* Duplicate.
C22_CharCountIsContentLength ==
    \A i \in 1..Len(slides) : slides[i].char_count = Len(slides[i].content)

\* bold on slide 1 (text "x", caret at 0), then Duplicate
C22_Witness ==
    /\ Applied("format", {"bold"})
    /\ Len(slides) = 3
    /\ slides[1].content = <<"*", "*", "*", "*", "x">>
    /\ slides[1].char_count = 5
    /\ slides[3].id > 100
    /\ slides[3].content = slides[1].content
    /\ slides[3].char_count = 5

====
